---- MODULE Spec2Model ----
(***************************************************************************)
(* A model of scaleops/promqlpandas.py: the Prometheus client that turns   *)
(* query responses into label-indexed tables and caches range queries on   *)
(* disk, one parquet file per query hash.                                  *)
(*                                                                         *)
(* Times (start, end, step, sample timestamps) are floats in the code;     *)
(* here they are integers counting tenths of a second, so 5.4 s is 54 and  *)
(* a step of 5 s is 50.  Floats that hold cell values are written as the   *)
(* strings "1.0", "2.0", "inf" and "nan".                                   *)
(***************************************************************************)
EXTENDS Integers, Sequences, FiniteSets, TLC

VARIABLES
    cache_path,   \* self._cache_path is set (TRUE) or None (FALSE)
    dirExists,    \* the directory self._cache_path exists on disk
    files,        \* file name (query hash) -> the table the file holds, or NoFile
    call,         \* the last call made: its operation and arguments
    outcome       \* what that call did: status, transport contacted, value returned

vars == <<cache_path, dirExists, files, call, outcome>>

----------------------------------------------------------------------------
(* Bounds of the model *)

MaxSeries == 2
MaxSamples == 2
MaxSlots == 2

----------------------------------------------------------------------------
(* Values *)

\* Python's None, as the placeholder of a missing index level (m.get(level, None))
None == "<None>"

\* IEEE-754 NaN as a cell of a numeric buffer
NaN == "nan"

\* The value a call returns when it raises
NoRet == [kind |-> "none"]

\* A cache file that does not exist
NoFile == [kind |-> "absent"]

\* The empty label set {} (also labels=None: both are falsy at line 301)
NoLabels == <<>>

SeqToSet(s) == {s[i] : i \in 1..Len(s)}

Max(a, b) == IF a >= b THEN a ELSE b

\* ceil(n / d) for d > 0
CeilDiv(n, d) == -((-n) \div d)

----------------------------------------------------------------------------
(* Numeric helpers of numpy *)

\* np.float64(v) of the strings Prometheus sends as sample values
Float64(v) ==
    CASE v = "1" -> "1.0"
      [] v = "2" -> "2.0"
      [] v = "+Inf" -> "inf"
      [] v = "NaN" -> NaN

\* The constant 1e-6 (seconds) added to end, as a fraction of a tenth of a second
Epsilon == [num |-> 1, den |-> 100000]

\* np.arange(start, end, step) without the 1e-6: an end on a boundary is left out
ArangeLenNoEpsilon(start, end, step) ==
    Max(0, CeilDiv((end - start) * Epsilon.den, step * Epsilon.den))

\* len(np.arange(start, end + 1e-6, step)) = ceil((end + 1e-6 - start) / step),
\* never negative; step > 0
ArangeLen(start, end, step) ==
    Max(0, CeilDiv((end - start) * Epsilon.den + Epsilon.num, step * Epsilon.den))

\* np.arange(start, end + 1e-6, step): start + i * step for i = 0 .. len - 1
Arange(start, end, step) ==
    [i \in 1..ArangeLen(start, end, step) |-> start + (i - 1) * step]

\* Round half away from zero (not what np.rint does)
RoundHalfAway(num, den) ==
    LET q == num \div den
        r == num - q * den
    IN  IF 2 * r < den THEN q
        ELSE IF 2 * r > den THEN q + 1
        ELSE IF q >= 0 THEN q + 1 ELSE q

\* np.rint(num / den) for den > 0: round to nearest, a tie goes to the even integer
Rint(num, den) ==
    LET q == num \div den
        r == num - q * den
    IN  IF 2 * r < den THEN q
        ELSE IF 2 * r > den THEN q + 1
        ELSE IF q % 2 = 0 THEN q ELSE q + 1

----------------------------------------------------------------------------
(* Label index *)

\* Label names and label values in the order Python's sorted() gives strings
NameOrder == <<"__name__", "env", "job", "metric_name">>
ValueOrder == <<"", "a", "b", "dev", "prod", "up">>

\* The position of string s in an ordered sequence of strings
Rank(order, s) == CHOOSE i \in 1..Len(order) : order[i] = s

\* sorted(list(levels)) for a set of label names
SortedNames(levels) == SelectSeq(NameOrder, LAMBDA n : n \in levels)

\* {**m, **labels}
MergeDict(m, labels) ==
    [n \in (DOMAIN m) \cup (DOMAIN labels) |->
        IF n \in DOMAIN labels THEN labels[n] ELSE m[n]]

\* _merge_metric_labels
MergeMetricLabels(metrics, labels) ==
    IF labels # NoLabels
    THEN [i \in 1..Len(metrics) |-> MergeDict(metrics[i], labels)]
    ELSE metrics

\* if '__name__' in m.keys(): m['metric_name'] = m.pop('__name__')
RemapName(m) ==
    IF "__name__" \in DOMAIN m
    THEN [n \in ((DOMAIN m) \ {"__name__"}) \cup {"metric_name"} |->
            IF n = "metric_name" THEN m["__name__"] ELSE m[n]]
    ELSE m

\* m.get(level, None)
DictGet(m, level) == IF level \in DOMAIN m THEN m[level] ELSE None

\* _metric_index: the MultiIndex (names, tuples) of a list of metrics, or the
\* RuntimeError raised when no series carries any label
MetricIndex(metrics, labels) ==
    LET merged == MergeMetricLabels(metrics, labels)
        remapped == [i \in 1..Len(merged) |-> RemapName(merged[i])]
        levels == SortedNames(UNION {DOMAIN remapped[i] : i \in 1..Len(remapped)})
    IN  IF Len(levels) = 0
        THEN [err |-> "RuntimeError", names |-> <<>>, tuples |-> <<>>]
        ELSE [err |-> "",
              names |-> levels,
              tuples |-> [i \in 1..Len(remapped) |->
                            [k \in 1..Len(levels) |-> DictGet(remapped[i], levels[k])]]]

----------------------------------------------------------------------------
(* Materializers *)

\* A caller's sort argument is modelled by the label it projects:
\* sort = lambda m: m.get(name, ''), and NoSort for sort=None
NoSort == "<no sort>"
SortKey(sort, metric) == IF sort \in DOMAIN metric THEN metric[sort] ELSE ""

\* sorted(results, key=lambda r: sort(r['metric'])): stable, ascending by key
Sorted(results, sort) ==
    LET keyRank(i) == Rank(ValueOrder, SortKey(sort, results[i].metric))
        \* position of element i in the sorted list
        pos(i) == Cardinality({j \in 1..Len(results) :
                      \/ keyRank(j) < keyRank(i)
                      \/ keyRank(j) = keyRank(i) /\ j <= i})
    IN  [p \in 1..Len(results) |->
            results[CHOOSE i \in 1..Len(results) : pos(i) = p]]

\* _vector_to_numpy: (data, metrics)
VectorToNumpy(results) ==
    [err |-> "",
     data |-> [i \in 1..Len(results) |-> Float64(results[i].value[2])],
     metrics |-> [i \in 1..Len(results) |-> results[i].metric]]

\* inds of one series: np.rint((metric_times - start) / step).astype(np.int64)
Inds(samples, start, step) ==
    [k \in 1..Len(samples) |-> Rint(samples[k][1] - start, step)]

\* numpy's index check of data[ii, inds] on an axis of length n: each index
\* must lie in [-n, n)
IndsInBounds(inds, n) == \A k \in 1..Len(inds) : -n <= inds[k] /\ inds[k] < n

\* numpy's negative index: -1 is the last element
Wrap(ind, n) == IF ind < 0 THEN ind + n ELSE ind

\* data[ii, inds] = vals, one assignment after the other (a later one wins)
RECURSIVE AssignRow(_, _, _, _)
AssignRow(row, inds, vals, k) ==
    IF k > Len(inds) THEN row
    ELSE AssignRow([row EXCEPT ![Wrap(inds[k], Len(row)) + 1] = vals[k]],
                   inds, vals, k + 1)

\* One row of data: NaN filled, then the series' samples written at inds
MatrixRow(samples, start, step, n) ==
    AssignRow([g \in 1..n |-> NaN],
              Inds(samples, start, step),
              [k \in 1..Len(samples) |-> Float64(samples[k][2])],
              1)

\* _matrix_to_numpy: (data, metrics, times), or the exception it raises.
\* zip(*t['values']) of an empty list cannot be unpacked (ValueError); an
\* index outside [-n, n) raises IndexError.
MatrixToNumpy(results, start, end, step) ==
    LET times == Arange(start, end, step)
        n == Len(times)
        bad == {i \in 1..Len(results) :
                   \/ Len(results[i].values) = 0
                   \/ ~IndsInBounds(Inds(results[i].values, start, step), n)}
        first == CHOOSE i \in bad : \A j \in bad : i <= j
    IN  IF bad # {}
        THEN [err |-> IF Len(results[first].values) = 0
                      THEN "ValueError" ELSE "IndexError",
              data |-> <<>>, metrics |-> <<>>, times |-> <<>>]
        ELSE [err |-> "",
              data |-> [i \in 1..Len(results) |->
                          MatrixRow(results[i].values, start, step, n)],
              metrics |-> [i \in 1..Len(results) |-> results[i].metric],
              times |-> times]

\* _numpy_to_series: pd.Series(data, index=index)
NumpyToSeries(data, metrics, labels) ==
    LET index == MetricIndex(metrics, labels)
    IN  IF index.err # "" THEN [err |-> index.err, ret |-> NoRet]
        ELSE [err |-> "",
              ret |-> [kind |-> "Series", names |-> index.names,
                       index |-> index.tuples, data |-> data]]

\* _numpy_to_dataframe: pd.DataFrame(data.T, columns=columns, index=index); the
\* index holds the grid times, the columns the composite label keys
NumpyToDataframe(data, metrics, times, labels) ==
    LET columns == MetricIndex(metrics, labels)
    IN  IF columns.err # "" THEN [err |-> columns.err, ret |-> NoRet]
        ELSE [err |-> "",
              ret |-> [kind |-> "DataFrame", names |-> columns.names,
                       columns |-> columns.tuples,
                       index |-> times,
                       data |-> [g \in 1..Len(times) |->
                                   [i \in 1..Len(data) |-> data[i][g]]]]]

\* _to_pandas.  The sort comes before the dispatch on the type: the result of
\* a scalar or string is [timestamp, value], so the lambda indexes a float
\* and raises TypeError.  np.float64(r) of the scalar's pair converts both
\* elements and gives an array of two floats (the timestamp is a number
\* already, the value goes from its string); a string result is returned as
\* the pair it is.
ToPandas(results, start, end, step, sort, labels) ==
    LET type == results.resultType
    IN  IF sort # NoSort /\ type \in {"scalar", "string"}
        THEN [err |-> "TypeError", ret |-> NoRet]
        ELSE
        LET r == IF sort # NoSort THEN Sorted(results.result, sort)
                 ELSE results.result
        IN  CASE type = "vector" ->
                    LET v == VectorToNumpy(r)
                    IN  NumpyToSeries(v.data, v.metrics, labels)
              [] type = "matrix" ->
                    LET m == MatrixToNumpy(r, start, end, step)
                    IN  IF m.err # "" THEN [err |-> m.err, ret |-> NoRet]
                        ELSE NumpyToDataframe(m.data, m.metrics, m.times, labels)
              [] type = "scalar" ->
                    [err |-> "", ret |-> [kind |-> "ndarray",
                                          data |-> <<r[1], Float64(r[2])>>]]
              [] type = "string" ->
                    [err |-> "", ret |-> [kind |-> "list", value |-> r]]
              [] OTHER -> [err |-> "ValueError", ret |-> NoRet]

----------------------------------------------------------------------------
(* Transport and cache files *)

\* hashlib.sha256(query.encode('utf-8')).hexdigest(), for the queries of the model
QueryHash(query) ==
    CASE query = "up" ->
            "75a288c0d6898c5f7b054590845978a82a3ad79fcce3d43ff68a7501e5a91ee9"
      [] query = "rate" ->
            "c549779d79e5c8e9c9a6b6da5f1c5e21075eb9319852f858acb227ee855e4ef5"

NoData == [resultType |-> "", result |-> <<>>]

\* _do_query on the response the server gave: raise_for_status() is called for
\* a status other than 400, 422, 503 and raises HTTPError for 400 <= status < 600
\* only; a body whose status is not 'success' raises RuntimeError; otherwise
\* response['data']
DoQuery(resp) ==
    IF /\ resp.status_code \notin {400, 422, 503}
       /\ resp.status_code >= 400
       /\ resp.status_code < 600
    THEN [err |-> "HTTPError", data |-> NoData]
    ELSE IF resp.status # "success"
    THEN [err |-> "RuntimeError", data |-> NoData]
    ELSE [err |-> "", data |-> resp.data]

\* os.remove replaced by an unlink that tolerates a missing file
FlushQueryEffectMissingOk(cached, fs, query) ==
    IF ~cached THEN [err |-> "TypeError", files |-> fs]
    ELSE [err |-> "", files |-> [fs EXCEPT ![QueryHash(query)] = NoFile]]

\* flush_query_cache: os.remove(self._cache_path / '<hash>.parquet').  With no
\* cache path, None / str raises TypeError; a missing file (or directory)
\* raises FileNotFoundError; otherwise that one file is deleted.
FlushQueryEffect(cached, fs, query) ==
    IF ~cached THEN [err |-> "TypeError", files |-> fs]
    ELSE IF fs[QueryHash(query)] = NoFile
    THEN [err |-> "FileNotFoundError", files |-> fs]
    ELSE [err |-> "", files |-> [fs EXCEPT ![QueryHash(query)] = NoFile]]

\* A missed call that raises after the lookup
Raised(err, dir, fs) ==
    [dir |-> dir, files |-> fs,
     outcome |-> [status |-> err, contacted |-> TRUE, ret |-> NoRet]]

\* metric_df.to_parquet(path) at the end of query_range: only a DataFrame has
\* the method (AttributeError otherwise); the file then holds the table
StoreAndReturn(cached, hash, dir, fs, table) ==
    IF ~cached
    THEN [dir |-> dir, files |-> fs,
          outcome |-> [status |-> "ok", contacted |-> TRUE, ret |-> table]]
    ELSE IF table.kind # "DataFrame"
    THEN Raised("AttributeError", dir, fs)
    ELSE [dir |-> dir, files |-> [fs EXCEPT ![hash] = table],
          outcome |-> [status |-> "ok", contacted |-> TRUE, ret |-> table]]

\* query_range past the lookup (lines 148-165): the transport call, _to_pandas,
\* the store
FetchAndStore(cached, hash, dir, fs, start, end, step, labels, sort, resp) ==
    LET results == DoQuery(resp)
        metric_df == ToPandas(results.data, start, end, step, sort, labels)
    IN  IF results.err # "" THEN Raised(results.err, dir, fs)
        ELSE IF metric_df.err # "" THEN Raised(metric_df.err, dir, fs)
        ELSE StoreAndReturn(cached, hash, dir, fs, metric_df.ret)

\* A lookup that never finds the file
LookupAlwaysMisses(hash, dir, fs, start, end, step, labels, sort, resp) ==
    FetchAndStore(TRUE, hash, TRUE, fs, start, end, step, labels, sort, resp)

\* A lookup that leaves the directory to the store step: created only once
\* the table is there to be written
LookupWithoutMakedirs(hash, dir, fs, start, end, step, labels, sort, resp) ==
    IF dir /\ fs[hash] # NoFile
    THEN [dir |-> dir, files |-> fs,
          outcome |-> [status |-> "ok", contacted |-> FALSE, ret |-> fs[hash]]]
    ELSE LET e == FetchAndStore(TRUE, hash, dir, fs, start, end, step, labels, sort, resp)
         IN  [e EXCEPT !.dir = dir \/ e.outcome.status = "ok"]

\* The lookup of query_range (lines 142-146) with the cache configured: a hit
\* returns the file's table; a miss creates the directory when it is absent
\* and goes on to the transport
LookupOrFetch(hash, dir, fs, start, end, step, labels, sort, resp) ==
    IF dir /\ fs[hash] # NoFile
    THEN [dir |-> dir, files |-> fs,
          outcome |-> [status |-> "ok", contacted |-> FALSE, ret |-> fs[hash]]]
    ELSE FetchAndStore(TRUE, hash, TRUE, fs, start, end, step, labels, sort, resp)

\* A forced flush that calls flush_cache() instead of flush_query_cache(query)
QueryRangeEffectFlushAll(cached, dir, fs, query, start, end, step, labels, sort, flush, resp) ==
    LET hash == QueryHash(query)
        flushed == FlushQueryEffect(cached, fs, query)
    IN  IF ~cached
        THEN FetchAndStore(FALSE, hash, dir, fs, start, end, step, labels, sort, resp)
        ELSE IF flush /\ flushed.err # ""
        THEN [dir |-> dir, files |-> fs,
              outcome |-> [status |-> flushed.err, contacted |-> FALSE,
                           ret |-> NoRet]]
        ELSE LookupOrFetch(hash, dir,
                           IF flush THEN [h \in DOMAIN fs |-> NoFile] ELSE fs,
                           start, end, step, labels, sort, resp)

\* query_range: what it leaves on disk and what it returns or raises.
\* With a cache path, flush_cache=True first calls flush_query_cache, and what
\* that raises ends the call.
QueryRangeEffect(cached, dir, fs, query, start, end, step, labels, sort, flush, resp) ==
    LET hash == QueryHash(query)
        flushed == FlushQueryEffect(cached, fs, query)
    IN  IF ~cached
        THEN FetchAndStore(FALSE, hash, dir, fs, start, end, step, labels, sort, resp)
        ELSE IF flush /\ flushed.err # ""
        THEN [dir |-> dir, files |-> fs,
              outcome |-> [status |-> flushed.err, contacted |-> FALSE,
                           ret |-> NoRet]]
        ELSE LookupOrFetch(hash, dir, IF flush THEN flushed.files ELSE fs,
                           start, end, step, labels, sort, resp)

\* query: the transport call, the sort of line 97, _to_pandas(results).
\* results is the dict response['data'], so sorted() walks its keys and the
\* lambda indexes a str: TypeError whenever sort is given.  _to_pandas gets
\* neither labels nor a window: a matrix result makes np.arange(None, ...) raise.
QueryEffect(labels, sort, resp) ==
    LET results == DoQuery(resp)
        ret == ToPandas(results.data, 0, 0, 1, NoSort, NoLabels)
    IN  IF results.err # ""
        THEN [status |-> results.err, contacted |-> TRUE, ret |-> NoRet]
        ELSE IF sort # NoSort
        THEN [status |-> "TypeError", contacted |-> TRUE, ret |-> NoRet]
        ELSE IF results.data.resultType = "matrix"
        THEN [status |-> "TypeError", contacted |-> TRUE, ret |-> NoRet]
        ELSE IF ret.err # ""
        THEN [status |-> ret.err, contacted |-> TRUE, ret |-> NoRet]
        ELSE [status |-> "ok", contacted |-> TRUE, ret |-> ret.ret]

----------------------------------------------------------------------------
(* The calls a client receives and the responses the server gives *)

Queries == {"up", "rate"}
InstantQueries == {"up"}
HashNames == {QueryHash(q) : q \in Queries}

\* (start, end, step) of the range queries: 0 s to 10 s and 0 s to 5 s, step 5 s
Windows == {[start |-> 0, end |-> 100, step |-> 50],
            [start |-> 0, end |-> 50, step |-> 50]}

LabelChoices == {NoLabels, [env |-> "prod"]}
SortChoices == {NoSort, "job"}

SeriesB == [metric |-> ("__name__" :> "up") @@ ("job" :> "b"),
            values |-> <<<<0, "1">>, <<50, "2">>>>]
SeriesA == [metric |-> ("__name__" :> "up") @@ ("job" :> "a") @@ ("env" :> "dev"),
            values |-> <<<<50, "NaN">>>>]
SeriesBare == [metric |-> <<>>, values |-> <<<<0, "1">>>>]

HttpFailure == [status_code |-> 500, status |-> "", data |-> NoData]
UpstreamError == [status_code |-> 400, status |-> "error", data |-> NoData]
Success(data) == [status_code |-> 200, status |-> "success", data |-> data]
NoResponse == [status_code |-> 0, status |-> "", data |-> NoData]

MatrixTwo == [resultType |-> "matrix", result |-> <<SeriesB, SeriesA>>]
MatrixBare == [resultType |-> "matrix", result |-> <<SeriesBare>>]
ScalarData == [resultType |-> "scalar", result |-> <<0, "1">>]
VectorTwo == [resultType |-> "vector",
              result |-> <<[metric |-> SeriesB.metric, value |-> <<0, "1">>],
                           [metric |-> SeriesA.metric, value |-> <<0, "2">>]>>]

StreamsData == [resultType |-> "streams", result |-> <<>>]

RangeResponses == {HttpFailure, UpstreamError, Success(MatrixTwo),
                   Success(MatrixBare), Success(ScalarData), Success(StreamsData)}
InstantResponses == {HttpFailure, UpstreamError, Success(VectorTwo),
                     Success(ScalarData), Success(MatrixTwo)}

NoCall == [op |-> "__init__", query |-> "", start |-> 0, end |-> 0, step |-> 1,
           labels |-> NoLabels, sort |-> NoSort, flush_cache |-> FALSE,
           response |-> NoResponse]

\* No flush_cache came just before
NoPreceding == [op |-> "", dir_before |-> FALSE, entry_before |-> FALSE]

\* The call that came just before the one being made, kept when it was
\* flush_cache, with what that flush found on disk
Preceding ==
    IF call.op = "flush_cache"
    THEN [op |-> call.op, dir_before |-> outcome.dir_before,
          entry_before |-> outcome.entry_before]
    ELSE NoPreceding

\* What a call did, with what it found on disk when it started (whether the
\* cache directory existed, and whether the file of its query did or, for
\* flush_cache, any file), and the flush_cache that came just before it, if any
Observed(o, dirBefore, entryBefore, prev) ==
    [status |-> o.status, contacted |-> o.contacted, ret |-> o.ret,
     dir_before |-> dirBefore, entry_before |-> entryBefore, prev |-> prev]

\* A call that returned None without contacting the transport
Returned == [status |-> "ok", contacted |-> FALSE, ret |-> NoRet]

----------------------------------------------------------------------------
(* The client *)

\* Prometheus.__init__: cache_path given or not; nothing is touched on disk
Init ==
    /\ cache_path \in BOOLEAN
    /\ dirExists = FALSE
    /\ files = [h \in HashNames |-> NoFile]
    /\ call = NoCall
    /\ outcome = Observed(Returned, FALSE, FALSE, NoPreceding)

\* Prometheus.query_range
QueryRange ==
    \E query \in Queries, w \in Windows, labels \in LabelChoices,
       sort \in SortChoices, flush \in BOOLEAN, resp \in RangeResponses :
        LET e == QueryRangeEffect(cache_path, dirExists, files, query,
                                  w.start, w.end, w.step, labels, sort, flush, resp)
        IN  /\ call' = [op |-> "query_range", query |-> query,
                        start |-> w.start, end |-> w.end, step |-> w.step,
                        labels |-> labels, sort |-> sort, flush_cache |-> flush,
                        response |-> IF e.outcome.contacted THEN resp ELSE NoResponse]
            /\ dirExists' = e.dir
            /\ files' = e.files
            /\ outcome' = Observed(e.outcome, dirExists,
                                   files[QueryHash(query)] # NoFile, Preceding)
            /\ UNCHANGED cache_path

\* Prometheus.query
Query ==
    \E query \in InstantQueries, labels \in LabelChoices, sort \in SortChoices,
       resp \in InstantResponses :
        /\ call' = [NoCall EXCEPT !.op = "query", !.query = query,
                                  !.labels = labels, !.sort = sort,
                                  !.response = resp]
        /\ outcome' = Observed(QueryEffect(labels, sort, resp), dirExists, FALSE,
                               Preceding)
        /\ UNCHANGED <<cache_path, dirExists, files>>

\* A flush_cache that deletes the files and keeps the directory
FlushCacheKeepsDirectory ==
    /\ call' = [NoCall EXCEPT !.op = "flush_cache"]
    /\ files' = [h \in HashNames |-> NoFile]
    /\ outcome' = Observed(Returned, dirExists,
                           \E h \in HashNames : files[h] # NoFile, Preceding)
    /\ UNCHANGED <<cache_path, dirExists>>

\* Prometheus.flush_cache: shutil.rmtree(self._cache_path, ignore_errors=True).
\* With no cache path, rmtree(None) swallows the TypeError of os.lstat(None)
\* up to Python 3.11 and raises it from 3.12 on.
FlushCache ==
    /\ call' = [NoCall EXCEPT !.op = "flush_cache"]
    /\ IF cache_path
       THEN /\ dirExists' = FALSE
            /\ files' = [h \in HashNames |-> NoFile]
            /\ outcome' = Observed(Returned, dirExists,
                                   \E h \in HashNames : files[h] # NoFile,
                                   Preceding)
       ELSE /\ \E status \in {"ok", "TypeError"} :
                  outcome' = Observed([Returned EXCEPT !.status = status],
                                      dirExists, FALSE, Preceding)
            /\ UNCHANGED <<dirExists, files>>
    /\ UNCHANGED cache_path

\* Prometheus.flush_query_cache
FlushQueryCache ==
    \E query \in Queries :
        LET e == FlushQueryEffect(cache_path, files, query)
        IN  /\ call' = [NoCall EXCEPT !.op = "flush_query_cache", !.query = query]
            /\ files' = e.files
            /\ outcome' = Observed([Returned EXCEPT
                                        !.status = IF e.err = "" THEN "ok" ELSE e.err],
                                   dirExists, files[QueryHash(query)] # NoFile,
                                   Preceding)
            /\ UNCHANGED <<cache_path, dirExists>>

Next == QueryRange \/ Query \/ FlushCache \/ FlushQueryCache

Spec == Init /\ [][Next]_vars

----------------------------------------------------------------------------
(* _matrix_to_numpy on its own: the inputs are drawn, then it is applied *)

GridStarts == {0, 10}
GridSteps == {20, 50}

\* end before start, end on each step boundary up to MaxSlots steps, and an
\* end one second short of the last boundary
GridEnds(start, step) ==
    {start - 10, start + MaxSlots * step - 10}
        \cup {start + k * step : k \in 0..MaxSlots}

\* Sample timestamps: every half step from one step before start to half a
\* step past the last boundary, and one 0.4 s after the first step (t = 5.4
\* for start = 0, step = 5)
SampleTimes(start, step) ==
    {start + h * (step \div 2) : h \in (-2)..(2 * MaxSlots + 1)}
        \cup {start + step + 4}

\* The value string of sample k of series i
EngineValues == <<"1", "NaN", "2", "+Inf">>
EngineValue(i, k) == EngineValues[((2 * (i - 1) + (k - 1)) % Len(EngineValues)) + 1]

\* The series at position i of a response, with the given sample timestamps
SeriesOf(i, ts) ==
    [metric |-> [job |-> ValueOrder[(i % (Len(ValueOrder) - 1)) + 2]],
     values |-> [k \in 1..Len(ts) |-> <<ts[k], EngineValue(i, k)>>]]

\* Lists of timestamps for series i..last, holding at most budget samples in all
RECURSIVE TimeLists(_, _, _, _)
TimeLists(T, i, last, budget) ==
    IF i > last THEN {<<>>}
    ELSE UNION {
            {<<ts>> \o rest : rest \in TimeLists(T, i + 1, last, budget - Len(ts))} :
            ts \in UNION {[1..k -> T] : k \in 0..budget}}

\* The matrix results of at most MaxSeries series and MaxSamples samples
GridResults(start, step) ==
    UNION {
        {[i \in 1..n |-> SeriesOf(i, tl[i])] :
            tl \in TimeLists(SampleTimes(start, step), 1, n, MaxSamples)} :
        n \in 0..MaxSeries}

Pending == Observed([status |-> "pending", contacted |-> FALSE, ret |-> NoRet],
                    FALSE, FALSE, NoPreceding)

InitGrid ==
    /\ cache_path = FALSE
    /\ dirExists = FALSE
    /\ files = [h \in HashNames |-> NoFile]
    /\ \E start \in GridStarts, step \in GridSteps :
       \E end \in GridEnds(start, step), results \in GridResults(start, step) :
            call = [NoCall EXCEPT !.op = "_matrix_to_numpy",
                        !.start = start, !.end = end, !.step = step,
                        !.response = Success([resultType |-> "matrix",
                                              result |-> results])]
    /\ outcome = Pending

\* Prometheus._matrix_to_numpy(results, start, end, step)
ApplyMatrixToNumpy ==
    /\ outcome = Pending
    /\ LET m == MatrixToNumpy(call.response.data.result,
                              call.start, call.end, call.step)
       IN  outcome' = Observed([status |-> IF m.err = "" THEN "ok" ELSE m.err,
                                contacted |-> FALSE,
                                ret |-> [kind |-> "ndarray", data |-> m.data,
                                         metrics |-> m.metrics, times |-> m.times]],
                               FALSE, FALSE, NoPreceding)
    /\ UNCHANGED <<cache_path, dirExists, files, call>>

NextGrid == ApplyMatrixToNumpy

SpecGrid == InitGrid /\ [][NextGrid]_vars

----------------------------------------------------------------------------
(* Properties of _matrix_to_numpy, under SpecGrid *)

GridCall == call.op = "_matrix_to_numpy"
GridSeries == call.response.data.result
GridOk == GridCall /\ outcome.status = "ok"

\* The samples of series i whose timestamp is t
SamplesAt(i, t) == {k \in 1..Len(GridSeries[i].values) : GridSeries[i].values[k][1] = t}

\* Every sample of every series lies on a time of the grid
AllOnGrid(times) ==
    \A i \in 1..Len(GridSeries) : \A k \in 1..Len(GridSeries[i].values) :
        GridSeries[i].values[k][1] \in SeqToSet(times)

\* C7: the time axis of a matrix result is start, start + step, ... up to the
\* last such time before end + 1e-6, which is end itself when end lies on a
\* step boundary; and when every sample lies on a grid time, the cell of series i at
\* grid time g holds the value of the series' (last) sample at g, NaN when it
\* has none.
GridAxisAndCells ==
    GridOk =>
        LET times == outcome.ret.times
            data == outcome.ret.data
            n == Len(times)
        IN  /\ \A g \in 1..n : times[g] = call.start + (g - 1) * call.step
            /\ \A g \in 1..n : times[g] * Epsilon.den < call.end * Epsilon.den + Epsilon.num
            /\ (call.start + n * call.step) * Epsilon.den
                    >= call.end * Epsilon.den + Epsilon.num
            /\ (call.end >= call.start /\ (call.end - call.start) % call.step = 0)
                    => (n >= 1 /\ times[n] = call.end)
            /\ Len(data) = Len(GridSeries)
            /\ AllOnGrid(times) =>
                    \A i \in 1..Len(GridSeries) : \A g \in 1..n :
                        LET at == SamplesAt(i, times[g])
                            last == CHOOSE k \in at : \A j \in at : j <= k
                        IN  data[i][g] = IF at = {} THEN NaN
                                         ELSE Float64(GridSeries[i].values[last][2])

\* C7 witness: start = 0, end = 10 s, step = 5 s gave the axis [0, 5, 10], and
\* two series with all samples on the grid gave a filled and a NaN cell
GridAxisAndCellsWitness ==
    /\ GridOk
    /\ call.start = 0 /\ call.end = 100 /\ call.step = 50
    /\ outcome.ret.times = <<0, 50, 100>>
    /\ Len(GridSeries) = 2
    /\ AllOnGrid(outcome.ret.times)
    /\ outcome.ret.data[1][3] = "1.0"
    /\ outcome.ret.data[1][1] = NaN
    /\ outcome.ret.data[2][2] = "2.0"

\* The samples of a series whose slot lies in [0, n)
InRangeSamples(samples, start, step, n) ==
    SelectSeq(samples, LAMBDA smp : Rint(smp[1] - start, step) \in 0..(n - 1))

\* C8 (as claimed): a sample whose slot falls outside [0, grid_length) is
\* dropped: materialization does not fail, and every row is what its
\* in-range samples alone give.
OutOfRangeSamplesDropped ==
    (/\ GridCall
     /\ outcome # Pending
     /\ \A i \in 1..Len(GridSeries) : Len(GridSeries[i].values) > 0)
    =>  /\ outcome.status = "ok"
        /\ \A i \in 1..Len(GridSeries) :
                outcome.ret.data[i] =
                    MatrixRow(InRangeSamples(GridSeries[i].values, call.start, call.step,
                                             Len(outcome.ret.times)),
                              call.start, call.step, Len(outcome.ret.times))

\* s is the integer nearest to d / step, the even one of the two on a tie
NearestTiesToEven(d, step, s) ==
    LET twice == IF s * step >= d THEN 2 * (s * step - d) ELSE 2 * (d - s * step)
    IN  twice < step \/ (twice = step /\ s % 2 = 0)

\* Series i holds exactly one sample, and its value is a number
LoneSample(i) ==
    /\ Len(GridSeries[i].values) = 1
    /\ GridSeries[i].values[1][2] # "NaN"

\* Row i holds value v at 0-based position p and NaN elsewhere
OnlyCell(row, p, v) ==
    /\ p + 1 \in 1..Len(row)
    /\ \A g \in 1..Len(row) : row[g] = IF g = p + 1 THEN v ELSE NaN

\* C9 (as claimed): the slot of a sample is (t - start) / step rounded to
\* nearest with ties away from zero; seen on a series' only sample, whose
\* value lands in that slot.
SlotRoundsHalfAway ==
    GridOk =>
        \A i \in 1..Len(GridSeries) :
            LoneSample(i) =>
                LET smp == GridSeries[i].values[1]
                    n == Len(outcome.ret.times)
                    slot == RoundHalfAway(smp[1] - call.start, call.step)
                IN  /\ slot \in (-n)..(n - 1)
                    /\ OnlyCell(outcome.ret.data[i], Wrap(slot, n), Float64(smp[2]))

\* C9 (amended): the slot is (t - start) / step rounded to nearest with ties to
\* the even integer; t = 5.4 s with start = 0, step = 5 s goes to slot 1.
SlotRoundsHalfEven ==
    GridOk =>
        \A i \in 1..Len(GridSeries) :
            LoneSample(i) =>
                LET smp == GridSeries[i].values[1]
                    n == Len(outcome.ret.times)
                IN  /\ \E slot \in (-n)..(n - 1) :
                        /\ NearestTiesToEven(smp[1] - call.start, call.step, slot)
                        /\ OnlyCell(outcome.ret.data[i], Wrap(slot, n), Float64(smp[2]))
                    /\ (call.start = 0 /\ call.step = 50 /\ smp[1] = 54)
                            => outcome.ret.data[i][2] = Float64(smp[2])

\* C9 witness: a lone sample half a step after start (between slots 0 and 1)
\* was written to slot 0, and one at 5.4 s to slot 1
SlotRoundsHalfEvenWitness ==
    /\ GridOk
    /\ Len(GridSeries) = 2
    /\ LoneSample(1) /\ LoneSample(2)
    /\ call.start = 0 /\ call.step = 50
    /\ GridSeries[1].values[1][1] = 25
    /\ GridSeries[2].values[1][1] = 54
    /\ Len(outcome.ret.times) = 3
    /\ outcome.ret.data[1] = <<"1.0", NaN, NaN>>
    /\ outcome.ret.data[2] = <<NaN, "2.0", NaN>>

----------------------------------------------------------------------------
(* Properties of the cache, under Spec *)

Entry(fs, query) == fs[QueryHash(query)]
NoEntries(fs) == \A h \in HashNames : fs[h] = NoFile

\* The call of this step flushes file h: flush_cache, flush_query_cache of its
\* query, or query_range of its query with flush_cache=True
Flushes(c, h) ==
    \/ c.op = "flush_cache"
    \/ c.op = "flush_query_cache" /\ QueryHash(c.query) = h
    \/ c.op = "query_range" /\ c.flush_cache /\ QueryHash(c.query) = h

\* C1: with a cache path, a query_range call that succeeds leaves the table it
\* returned in the file of its query; the file keeps that table through every
\* step that does not flush it; and a query_range call without forced flush
\* that finds the file returns its table without contacting the transport and
\* without touching the cache, whatever window, labels and sort it passes.
CacheHitServesStoredTable ==
    [][ /\ (cache_path /\ call'.op = "query_range" /\ outcome'.status = "ok")
                => Entry(files', call'.query) = outcome'.ret
        /\ \A h \in HashNames :
                (files[h] # NoFile /\ ~Flushes(call', h)) => files'[h] = files[h]
        /\ (/\ cache_path
            /\ call'.op = "query_range"
            /\ ~call'.flush_cache
            /\ Entry(files, call'.query) # NoFile)
                => /\ outcome'.status = "ok"
                   /\ ~outcome'.contacted
                   /\ outcome'.ret = Entry(files, call'.query)
                   /\ files' = files
                   /\ dirExists' = dirExists
      ]_vars

\* C1 witness: a call for 0..5 s with extra labels and a sort was served,
\* without the transport, the table stored for 0..10 s with neither
CacheHitWitness ==
    /\ cache_path
    /\ call.op = "query_range" /\ ~call.flush_cache
    /\ outcome.entry_before
    /\ outcome.status = "ok" /\ ~outcome.contacted
    /\ outcome.ret = Entry(files, call.query)
    /\ call.end = 50 /\ outcome.ret.index = <<0, 50, 100>>
    /\ call.labels = [env |-> "prod"] /\ call.sort = "job"
    /\ outcome.ret.names = <<"env", "job", "metric_name">>
    /\ outcome.ret.columns = <<<<None, "b", "up">>, <<"dev", "a", "up">>>>

\* C2: a file comes into existence only in a query_range call for its query
\* that contacted the transport and succeeded, and then holds the table the call
\* returned; a call that fails stores nothing; and a file that exists changes or
\* disappears only in a step that flushes it.
CacheEntryLifecycle ==
    [][ \A h \in HashNames :
            /\ (files[h] = NoFile /\ files'[h] # NoFile)
                    => /\ call'.op = "query_range"
                       /\ QueryHash(call'.query) = h
                       /\ outcome'.contacted
                       /\ outcome'.status = "ok"
                       /\ call'.response.status = "success"
                       /\ files'[h] = outcome'.ret
            /\ (outcome'.status # "ok" /\ files'[h] # NoFile) => files'[h] = files[h]
            /\ (files[h] # NoFile /\ files'[h] # files[h]) => Flushes(call', h)
            /\ (files[h] # NoFile /\ files'[h] # files[h] /\ files'[h] # NoFile)
                    => /\ call'.op = "query_range"
                       /\ outcome'.contacted
                       /\ files'[h] = outcome'.ret
      ]_vars

\* C2 witness: a missed call whose transport answered and whose
\* materialization then failed stored nothing, and the other query's file
\* stayed
CacheEntryLifecycleWitness ==
    /\ cache_path
    /\ call.op = "query_range" /\ call.query = "up" /\ ~call.flush_cache
    /\ ~outcome.entry_before
    /\ outcome.contacted
    /\ call.response.status = "success"
    /\ outcome.status = "RuntimeError"
    /\ Entry(files, "up") = NoFile
    /\ Entry(files, "rate") # NoFile

\* C3: flush_query_cache deletes the file of its query and no other and raises
\* when there is none; so query_range with flush_cache=True and no file for
\* its query raises before the transport is contacted and changes nothing,
\* and with a file it contacts the transport and what it returns and stores is
\* the table built from that response.
ForcedFlush ==
    [][ /\ (cache_path /\ call'.op = "flush_query_cache")
            => /\ dirExists' = dirExists
               /\ IF Entry(files, call'.query) # NoFile
                  THEN /\ outcome'.status = "ok"
                       /\ files' = [files EXCEPT ![QueryHash(call'.query)] = NoFile]
                  ELSE /\ outcome'.status = "FileNotFoundError"
                       /\ files' = files
        /\ (cache_path /\ call'.op = "query_range" /\ call'.flush_cache)
            => IF Entry(files, call'.query) = NoFile
               THEN /\ outcome'.status = "FileNotFoundError"
                    /\ ~outcome'.contacted
                    /\ files' = files
                    /\ dirExists' = dirExists
               ELSE /\ outcome'.contacted
                    /\ \A h \in HashNames \ {QueryHash(call'.query)} :
                            files'[h] = files[h]
                    /\ LET fresh == ToPandas(call'.response.data, call'.start, call'.end,
                                             call'.step, call'.sort, call'.labels)
                       IN  IF outcome'.status = "ok"
                           THEN /\ call'.response.status = "success"
                                /\ outcome'.ret = fresh.ret
                                /\ Entry(files', call'.query) = fresh.ret
                           ELSE /\ outcome'.ret = NoRet
                                /\ Entry(files', call'.query) = NoFile
      ]_vars

\* C3 witness: the first call ever, with flush_cache=True, raised
\* FileNotFoundError with the directory absent and the transport not contacted
ForcedFlushWitness ==
    /\ cache_path
    /\ call.op = "query_range" /\ call.flush_cache
    /\ ~outcome.entry_before /\ ~outcome.dir_before
    /\ outcome.status = "FileNotFoundError"
    /\ ~outcome.contacted
    /\ ~dirExists /\ NoEntries(files)

\* C4 (as claimed): flush_cache removes every file and the directory and never
\* raises; the query_range call without forced flush that follows it contacts
\* the transport and re-creates the directory and the file of its query.
FlushCacheThenRefill ==
    [][ /\ (cache_path /\ call'.op = "flush_cache")
            => /\ outcome'.status = "ok"
               /\ ~dirExists'
               /\ NoEntries(files')
        /\ (/\ cache_path
            /\ call.op = "flush_cache"
            /\ call'.op = "query_range"
            /\ ~call'.flush_cache)
            => /\ outcome'.contacted
               /\ dirExists'
               /\ Entry(files', call'.query) # NoFile
      ]_vars

\* C4 (amended): flush_cache removes every file and the directory and never
\* raises; the query_range call without forced flush that follows it contacts
\* the transport and re-creates the directory; it re-creates the file of its
\* query, holding the table it returns, when the call succeeds, and leaves the
\* directory empty when the call raises.
FlushCacheThenRefillOnSuccess ==
    [][ /\ (cache_path /\ call'.op = "flush_cache")
            => /\ outcome'.status = "ok"
               /\ ~dirExists'
               /\ NoEntries(files')
        /\ (/\ cache_path
            /\ call.op = "flush_cache"
            /\ call'.op = "query_range"
            /\ ~call'.flush_cache)
            => /\ outcome'.contacted
               /\ dirExists'
               /\ IF outcome'.status = "ok"
                  THEN /\ Entry(files', call'.query) = outcome'.ret
                       /\ outcome'.ret.kind = "DataFrame"
                  ELSE NoEntries(files')
      ]_vars

\* C4 witness: flush_cache removed a directory that held a file; the
\* query_range call without forced flush that followed it found no directory,
\* contacted the transport, raised, and left the directory re-created and empty
FlushCacheThenRefillWitness ==
    /\ cache_path
    /\ call.op = "query_range" /\ ~call.flush_cache
    /\ outcome.prev.op = "flush_cache"
    /\ outcome.prev.dir_before /\ outcome.prev.entry_before
    /\ ~outcome.dir_before /\ ~outcome.entry_before
    /\ outcome.contacted
    /\ outcome.status = "HTTPError"
    /\ dirExists
    /\ NoEntries(files)

\* C10 (as claimed): the directory is created only by the store step, so a
\* query_range call that starts with the directory absent and fails leaves it
\* absent.
FailedCallLeavesDirectoryAbsent ==
    (/\ cache_path
     /\ call.op = "query_range"
     /\ ~outcome.dir_before
     /\ outcome.status # "ok")
        => ~dirExists

\* C10 (amended): the lookup step creates the directory when it is absent,
\* before the transport is contacted; a query_range call that starts with the
\* directory absent leaves it absent only when its forced flush raised, and a
\* call that fails later leaves the directory present and empty.  No other
\* operation creates the directory.
LookupCreatesDirectory ==
    [][ /\ (~dirExists /\ dirExists')
            => cache_path /\ call'.op = "query_range" /\ ~call'.flush_cache
        /\ (cache_path /\ call'.op = "query_range" /\ ~dirExists)
            => /\ dirExists' = ~call'.flush_cache
               /\ outcome'.contacted = ~call'.flush_cache
               /\ call'.flush_cache => outcome'.status = "FileNotFoundError"
               /\ outcome'.status # "ok" => NoEntries(files')
      ]_vars

\* C10 witness: a call that started with the directory absent and failed in the
\* transport left the directory present and empty
LookupCreatesDirectoryWitness ==
    /\ cache_path
    /\ call.op = "query_range" /\ call.query = "rate"
    /\ ~outcome.dir_before
    /\ outcome.contacted
    /\ outcome.status = "RuntimeError"
    /\ call.response = UpstreamError
    /\ dirExists
    /\ NoEntries(files)

----------------------------------------------------------------------------
(* Properties of the label index and of the sort, under Spec *)

\* A call that contacted the transport and returned a table
ReturnedTable ==
    /\ call.op \in {"query", "query_range"}
    /\ outcome.contacted
    /\ outcome.status = "ok"
    /\ outcome.ret.kind \in {"Series", "DataFrame"}

\* The composite keys of a table: the index of a Series, the columns of a
\* DataFrame
KeysOf(table) == IF table.kind = "Series" THEN table.index ELSE table.columns

\* C5 (as claimed): for query and for query_range called with extra labels L,
\* the key of each series is built from the engine's label set merged with L
\* (L wins), __name__ renamed to metric_name; the levels are the sorted union
\* of the resulting names, and a series lacking a level holds None there.
ExtraLabelsMerged ==
    ReturnedTable =>
        LET series == call.response.data.result
            labelsOf(i) == RemapName(MergeDict(series[i].metric, call.labels))
            levels == SortedNames(UNION {DOMAIN labelsOf(i) : i \in 1..Len(series)})
            keys == KeysOf(outcome.ret)
        IN  /\ outcome.ret.names = levels
            /\ Len(keys) = Len(series)
            /\ SeqToSet(keys) =
                    {[k \in 1..Len(levels) |-> DictGet(labelsOf(i), levels[k])] :
                        i \in 1..Len(series)}

\* The (key, value) cells of a Series, the (key, time, value) cells of a DataFrame
Cells(table) ==
    IF table.kind = "Series"
    THEN {<<table.index[i], 0, table.data[i]>> : i \in 1..Len(table.index)}
    ELSE {<<table.columns[i], table.index[g], table.data[g][i]>> :
            i \in 1..Len(table.columns), g \in 1..Len(table.index)}

\* C6 (as claimed): for a vector or matrix response, query and query_range
\* called with a sort succeed exactly when the same call without it succeeds,
\* and return the same cells.
SortOnlyReorders ==
    (/\ call.op \in {"query", "query_range"}
     /\ outcome.contacted
     /\ call.sort # NoSort
     /\ call.response.status = "success"
     /\ call.response.data.resultType \in {"vector", "matrix"})
    =>  LET unsorted ==
                IF call.op = "query"
                THEN QueryEffect(call.labels, NoSort, call.response)
                ELSE FetchAndStore(cache_path, QueryHash(call.query), TRUE, files,
                                   call.start, call.end, call.step, call.labels,
                                   NoSort, call.response).outcome
        IN  /\ (outcome.status = "ok") = (unsorted.status = "ok")
            /\ outcome.status = "ok" => Cells(outcome.ret) = Cells(unsorted.ret)

====
